---- MODULE Spec2Model ----
(***************************************************************************)
(* A model of the cli-utils command line tools:                            *)
(*   - wt_profile.py : WtHandler, the CRUD layer over the Windows Terminal *)
(*                     settings.json (add_profile / remove_profile / query) *)
(*   - telegram.py   : the login / logout / verify commands over the       *)
(*                     setx-persisted TELEGRAM_* environment variables      *)
(***************************************************************************)
EXTENDS Integers, Sequences, FiniteSets, TLC

VARIABLES
    file,   \* wt_profile: the settings.json file on disk
    last,   \* wt_profile: the last WtHandler call: arguments, result, file before
    reg,    \* telegram: the user environment setx persists (TELEGRAM_* values)
    env,    \* telegram: os.environ of the shell the commands are started from
    valid,  \* telegram: the session strings the server still authorises
    tlast,  \* telegram: the last command: arguments, exit, messages, reg before
    proc,   \* telegram: the command whose logout coroutine is suspended
    race,   \* wt_profile, step by step: the call in progress and its locals
    seen    \* wt_profile, step by step: the effects of external writes met so far

wtVars == <<file, last>>
tgVars == <<reg, env, valid, tlast, proc>>
raceVars == <<race, seen>>
vars == <<file, last, reg, env, valid, tlast, proc, race, seen>>

----------------------------------------------------------------------------
(* Bounds and value universes                                              *)

\* number of distinct guids uuid4() can hand out; also bounds the list length
NumGuids == 3

GuidPool == <<"{1}", "{2}", "{3}", "{4}", "{5}", "{6}">>
Guids == {GuidPool[i] : i \in 1..NumGuids}
Names == {"A", "B"}
Cmds == {"/x", "/y"}
Themes == {"dark", "light"}

\* values no profile of the model ever carries
NoGuid == "{0}"
NoName == "Z"
NoCmd == "/z"

\* Python's None, and Optional values as sequences of length <= 1
None == <<>>
Some(x) == <<x>>

\* WtProfile as add() builds it (wt_profile.py:116-121), no icon given
CmdProfiles == [name : Names, guid : Guids, commandline : Cmds, hidden : {FALSE}]

\* entries the terminal itself keeps in the list: no commandline key
SourceProfiles == [name : Names, guid : Guids, hidden : {FALSE}]

FieldValues(field) ==
    CASE field = "guid" -> Guids \cup {NoGuid}
      [] field = "name" -> Names \cup {NoName}
      [] field = "commandline" -> Cmds \cup {NoCmd}

Fields == {"guid", "name", "commandline"}

----------------------------------------------------------------------------
(* Pure helpers                                                            *)

\* list.pop(index) leaves the list without the element at 0-based index
RemoveAt(list, index) ==
    [k \in 1..(Len(list) - 1) |-> IF k <= index THEN list[k] ELSE list[k + 1]]

\* dict.get(field): None when the key is absent
Get(profile, field) ==
    IF field \in DOMAIN profile THEN Some(profile[field]) ELSE None

\* json.loads(settings.read_text()): the document, whatever its formatting
loads(f) == f.data

\* a writer that serialises only the keys WtSettings declares
dumps_declared_keys(data) ==
    [fmt |-> "indent4",
     data |-> [theme |-> "absent",
               profiles |-> [defaults |-> "absent", list |-> data.profiles.list]]]

\* json.dumps(data, indent=4) followed by write_text: the whole document,
\* every key, re-serialised with 4-space indentation
dumps(data) == [fmt |-> "indent4", data |-> data]

\* WtHandler.profiles: a fresh read of data["profiles"]["list"]
profiles(f) == loads(f).profiles.list

\* the enumerate loop of remove_profile: 0-based index of the first match
FindIndex(list, value, field) ==
    LET hits == {i \in 1..Len(list) : Get(list[i], field) = Some(value)}
    IN IF hits = {} THEN None
       ELSE Some((CHOOSE i \in hits : \A j \in hits : i <= j) - 1)

\* the check `if index is None`
NotIndex_is_none(index) == index = None

\* `if not index`: None and 0 are both falsy
NotIndex(index) == index = None \/ index[1] = 0

\* truthiness of an Optional[dict]: None and {} are falsy
Truthy(opt) == opt # None /\ DOMAIN opt[1] # {}

\* WtHandler.query: first profile whose field equals value, else None
query(f, value, field) ==
    LET list == profiles(f)
        hits == {i \in 1..Len(list) : Get(list[i], field) = Some(value)}
    IN IF hits = {} THEN None
       ELSE Some(list[CHOOSE i \in hits : \A j \in hits : i <= j])

\* remove_profile without its write_text: the file keeps the popped entry
remove_profile_no_write(f, value, field) ==
    LET index == FindIndex(profiles(f), value, field)
    IN IF NotIndex(index)
       THEN [file |-> f, ret |-> None, writes |-> 0]
       ELSE [file |-> f, ret |-> Some(profiles(f)[index[1] + 1]), writes |-> 0]

\* remove_profile that rewrites the file before looking at the index
remove_profile_always_write(f, value, field) ==
    LET index == FindIndex(profiles(f), value, field)
        data == loads(f)
        list == data.profiles.list
    IN IF NotIndex(index)
       THEN [file |-> dumps(data), ret |-> None, writes |-> 1]
       ELSE [file |-> dumps([data EXCEPT !.profiles.list = RemoveAt(list, index[1])]),
             ret |-> Some(list[index[1] + 1]), writes |-> 1]

\* WtHandler.remove_profile: [file after, returned value, number of writes]
remove_profile(f, value, field) ==
    LET index == FindIndex(profiles(f), value, field)
    IN IF NotIndex(index)
       THEN [file |-> f, ret |-> None, writes |-> 0]
       ELSE LET data == loads(f)
                list == data.profiles.list
                popped == list[index[1] + 1]
                data2 == [data EXCEPT !.profiles.list = RemoveAt(list, index[1])]
            IN [file |-> dumps(data2), ret |-> Some(popped), writes |-> 1]

\* add_profile with `[profile] + self.profiles`
add_profile_prepend(f, profile) ==
    LET found == query(f, profile.commandline, "commandline")
        r == IF Truthy(found)
             THEN remove_profile(f, found[1].guid, "guid")
             ELSE [file |-> f, ret |-> None, writes |-> 0]
        data == loads(r.file)
        data2 == [data EXCEPT !.profiles.list = <<profile>> \o profiles(r.file)]
    IN [file |-> dumps(data2), ret |-> Some(TRUE), writes |-> r.writes + 1]

\* add_profile that appends in memory and never writes the new list
add_profile_no_write(f, profile) ==
    LET found == query(f, profile.commandline, "commandline")
        r == IF Truthy(found)
             THEN remove_profile(f, found[1].guid, "guid")
             ELSE [file |-> f, ret |-> None, writes |-> 0]
    IN [file |-> r.file, ret |-> Some(TRUE), writes |-> r.writes]

\* WtHandler.add_profile: [file after, returned value, number of writes]
add_profile(f, profile) ==
    LET found == query(f, profile.commandline, "commandline")
        r == IF Truthy(found)
             THEN remove_profile(f, found[1].guid, "guid")
             ELSE [file |-> f, ret |-> None, writes |-> 0]
        data == loads(r.file)
        data2 == [data EXCEPT !.profiles.list = Append(profiles(r.file), profile)]
    IN [file |-> dumps(data2), ret |-> Some(TRUE), writes |-> r.writes + 1]

----------------------------------------------------------------------------
(* The settings files the handler can be started on                        *)

UniqueGuids(list) ==
    \A i, j \in 1..Len(list) : list[i].guid = list[j].guid => i = j

UniqueCmds(list) ==
    \A i, j \in 1..Len(list) :
        ("commandline" \in DOMAIN list[i] /\ "commandline" \in DOMAIN list[j]
         /\ list[i].commandline = list[j].commandline) => i = j

RECURSIVE ListsUpTo(_, _)
ListsUpTo(S, n) ==
    IF n = 0 THEN {<<>>}
    ELSE LET shorter == ListsUpTo(S, n - 1)
         IN shorter \cup {Append(l, p) : l \in {s \in shorter : Len(s) = n - 1}, p \in S}

\* what the terminal (or an earlier run) left on disk: at most two entries,
\* guids unique, one commandline per executable
InitLists ==
    {l \in ListsUpTo(CmdProfiles \cup SourceProfiles, 2) :
        UniqueGuids(l) /\ UniqueCmds(l)}

NoCall == [op |-> "none", value |-> "", field |-> "", profile |-> None,
           ret |-> None, writes |-> 0, pre |-> None]

TgNoCmd == [cmd |-> "none", phone |-> "", force |-> FALSE, reset |-> FALSE,
            exit |-> "", log |-> <<>>, pre |-> <<>>]

EmptyEnv == [number |-> "", api_id |-> "", api_hash |-> "", session |-> ""]

\* no command is suspended
NoProc == [pc |-> "idle", cmd |-> "none", arg |-> "", phone |-> "",
           reset |-> FALSE, sync |-> FALSE, environ |-> EmptyEnv,
           session |-> "", log |-> <<>>, pre |-> <<>>]

\* the telegram state while the profile store is under study
TgQuiet ==
    /\ reg = EmptyEnv /\ env = EmptyEnv /\ valid = {} /\ tlast = TgNoCmd
    /\ proc = NoProc

NoRace == [pc |-> "idle", op |-> "none", value |-> "", field |-> "",
           profile |-> None, nested |-> FALSE, index |-> None, data |-> None,
           ret |-> None, ext |-> 0, change |-> None]

\* no call is being followed step by step
RaceQuiet == race = NoRace /\ seen = {}

Init ==
    /\ TgQuiet
    /\ RaceQuiet
    /\ \E fmt \in {"terminal", "indent4"}, theme \in Themes, list \in InitLists :
          file = [fmt |-> fmt,
                  data |-> [theme |-> theme,
                            profiles |-> [defaults |-> "d", list |-> list]]]
    /\ last = NoCall

----------------------------------------------------------------------------
(* One action per WtHandler call. Every command opens a handler, makes one *)
(* call and leaves the `with` block (wt_profile.py:125-126, 135, 181).     *)

Idle == last.op = "none"

\* add (wt_profile.py:109-127): a new entry with a fresh uuid4 guid
Add ==
    \E p \in CmdProfiles :
        /\ Idle
        /\ \A i \in 1..Len(profiles(file)) : profiles(file)[i].guid # p.guid
        /\ UNCHANGED <<tgVars, raceVars>>
        /\ LET r == add_profile(file, p)
           IN /\ file' = r.file
              /\ last' = [op |-> "add", value |-> "", field |-> "",
                          profile |-> Some(p), ret |-> r.ret,
                          writes |-> r.writes, pre |-> Some(file)]

Remove ==
    \E field \in Fields : \E value \in FieldValues(field) :
        LET r == remove_profile(file, value, field)
        IN /\ Idle
           /\ UNCHANGED <<tgVars, raceVars>>
           /\ file' = r.file
           /\ last' = [op |-> "remove", value |-> value, field |-> field,
                       profile |-> None, ret |-> r.ret,
                       writes |-> r.writes, pre |-> Some(file)]

Query ==
    \E field \in Fields : \E value \in FieldValues(field) :
        /\ Idle
        /\ UNCHANGED <<tgVars, raceVars>>
        /\ file' = file
        /\ last' = [op |-> "query", value |-> value, field |-> field,
                    profile |-> None, ret |-> query(file, value, field),
                    writes |-> 0, pre |-> Some(file)]

\* WtHandler.__exit__: nothing to release, the result goes out of scope
Exit ==
    /\ ~Idle
    /\ last' = NoCall
    /\ UNCHANGED <<file, tgVars, raceVars>>

Next == Add \/ Remove \/ Query \/ Exit

Spec == Init /\ [][Next]_vars

----------------------------------------------------------------------------
(* Properties of the profile store                                         *)

\* the file and the list the last call started from
Pre == last.pre[1]
PreList == profiles(Pre)
NewList == profiles(file)
Arg == last.profile[1]

HasField(profile, field, value) ==
    field \in DOMAIN profile /\ profile[field] = value

Positions(list, field, value) ==
    {i \in 1..Len(list) : HasField(list[i], field, value)}

\* C1: starting from unique guids and unique commandlines, add_profile(P2)
\* with an existing P1 of the same commandline (at any position) leaves
\* exactly one profile with that commandline, P2, and P1's guid is gone.
C1_AddReplacesOnCollision ==
    (/\ last.op = "add"
     /\ UniqueGuids(PreList) /\ UniqueCmds(PreList)
     /\ Positions(PreList, "commandline", Arg.commandline) # {})
    => \A i \in Positions(PreList, "commandline", Arg.commandline) :
          /\ Cardinality(Positions(NewList, "commandline", Arg.commandline)) = 1
          /\ \A j \in Positions(NewList, "commandline", Arg.commandline) :
                NewList[j] = Arg
          /\ Positions(NewList, "guid", PreList[i].guid) = {}

\* C2: with unique guids, remove_profile(P.guid, "guid") for P at any position
\* other than 0 returns P, and query(P.guid, "guid") then returns None.
C2_RemoveThenQuery ==
    (/\ last.op = "remove" /\ last.field = "guid"
     /\ UniqueGuids(PreList))
    => \A i \in 2..Len(PreList) :
          PreList[i].guid = last.value
          => /\ last.ret = Some(PreList[i])
             /\ query(file, last.value, "guid") = None

C2_Witness ==
    /\ last.op = "remove" /\ last.field = "guid"
    /\ Len(PreList) = 3 /\ UniqueGuids(PreList)
    /\ PreList[3].guid = last.value
    /\ last.ret = Some(PreList[3])

\* C3: when the first match of (value, field) is at position 0, remove_profile
\* returns None, writes nothing and the profile is still in the file; for
\* guid, name and commandline alike.
C3_ZeroIndexNotRemoved ==
    (/\ last.op = "remove"
     /\ Len(PreList) > 0
     /\ HasField(PreList[1], last.field, last.value))
    => /\ last.ret = None
       /\ last.writes = 0
       /\ file = Pre
       /\ NewList[1] = PreList[1]
       /\ query(file, last.value, last.field) = Some(PreList[1])

C3_Witness ==
    /\ last.op = "remove" /\ last.field = "commandline"
    /\ Len(PreList) >= 2
    /\ HasField(PreList[1], "commandline", last.value)
    /\ HasField(PreList[2], "commandline", last.value)
    /\ last.ret = None
    /\ file = Pre

\* C4: when no profile has P.commandline, add_profile(P) returns True, P is
\* the last element of the list in the file and query(P.commandline,
\* "commandline") returns a profile equal to P.
C4_AddThenQuery ==
    (/\ last.op = "add"
     /\ Positions(PreList, "commandline", Arg.commandline) = {})
    => /\ last.ret = Some(TRUE)
       /\ Len(NewList) = Len(PreList) + 1
       /\ NewList[Len(NewList)] = Arg
       /\ query(file, Arg.commandline, "commandline") = Some(Arg)

C4_Witness ==
    /\ last.op = "add"
    /\ Len(PreList) = 2
    /\ Positions(PreList, "commandline", Arg.commandline) = {}
    /\ NewList = Append(PreList, Arg)

\* C5: remove_profile with a value no profile has in that field returns None,
\* writes nothing and leaves the whole document as it was; calling it again
\* gives the same result.
C5_RemoveMissingIsNoOp ==
    (/\ last.op = "remove"
     /\ Positions(PreList, last.field, last.value) = {})
    => /\ last.ret = None
       /\ last.writes = 0
       /\ file = Pre
       /\ remove_profile(file, last.value, last.field)
             = [file |-> Pre, ret |-> None, writes |-> 0]

C5_Witness ==
    /\ last.op = "remove" /\ last.field = "guid"
    /\ Len(PreList) = 2
    /\ Pre.fmt = "terminal"
    /\ Positions(PreList, "guid", last.value) = {}
    /\ last.ret = None
    /\ file = Pre

\* profiles present before and after keep their relative order
SameRelativeOrder(old, new) ==
    \A i, j \in 1..Len(old) : \A k, l \in 1..Len(new) :
        (i < j /\ new[k] = old[i] /\ new[l] = old[j]) => k < l

\* C6: the relative order of the profiles that stay never changes: query
\* changes nothing, add_profile appends the new profile at the end after
\* removing at most the colliding one, a successful remove_profile deletes
\* one entry and shifts the later ones down by one.
C6_OrderPreserved ==
    (~Idle) =>
       /\ SameRelativeOrder(PreList, NewList)
       /\ last.op = "query" => file = Pre
       /\ last.op = "add" =>
             /\ NewList[Len(NewList)] = Arg
             /\ \/ SubSeq(NewList, 1, Len(NewList) - 1) = PreList
                \/ \E i \in Positions(PreList, "commandline", Arg.commandline) :
                      /\ Len(NewList) = Len(PreList)
                      /\ \A k \in 1..(Len(PreList) - 1) :
                            NewList[k] = IF k < i THEN PreList[k] ELSE PreList[k + 1]
       /\ (last.op = "remove" /\ last.ret = None) => NewList = PreList
       /\ (last.op = "remove" /\ last.ret # None) =>
             \E i \in 1..Len(PreList) :
                /\ PreList[i] = last.ret[1]
                /\ Len(NewList) = Len(PreList) - 1
                /\ \A k \in 1..Len(NewList) :
                      NewList[k] = IF k < i THEN PreList[k] ELSE PreList[k + 1]

C6_Witness ==
    /\ last.op = "remove" /\ last.ret # None
    /\ Len(PreList) = 3
    /\ last.ret[1] = PreList[2]
    /\ NewList = <<PreList[1], PreList[3]>>

\* everything of the document that is not profiles.list
OtherKeys(f) == [theme |-> loads(f).theme, defaults |-> loads(f).profiles.defaults]

\* C7: add_profile and remove_profile, successful or not, leave every key of
\* the document other than profiles.list with the value it had.
C7_OtherKeysPreserved ==
    last.op \in {"add", "remove"} => OtherKeys(file) = OtherKeys(Pre)

C7_Witness ==
    /\ last.op = "add"
    /\ last.writes = 2
    /\ Pre.fmt = "terminal"
    /\ file.fmt = "indent4"
    /\ OtherKeys(file) = [theme |-> "light", defaults |-> "d"]

----------------------------------------------------------------------------
(* telegram.py: the values the commands see                                *)

Tokens == {"s1", "s2", "s3"}

\* what a user may type where a phone number is expected
BareNumbers == {"9000000001", "9000000002", "12345", "90000x0001"}
DigitNumbers == {"9000000001", "9000000002", "12345"}
PhoneArgs == {"", "9000000001", "+919000000001", "+919000000002", "12345"}
PhoneInputs == {"9000000002", "90000x0001"}
ApiIdInputs == {"12345678", "1234"}
GoodHash == "0123456789abcdef0123456789abcdef"
ApiHashInputs == {GoodHash, "xyz"}

\* Telegram.PHONE_NUMBER / API_ID / API_HASH / SESSION name the fields of
\* reg and env: number, api_id, api_hash, session

ErrSetx == "3: Failed to perform 'setx' action"
ErrNumber == "4: not a valid phone number"
ErrApiId == "5: not a valid API ID"
ErrApiHash == "6: not a valid API Hash"
ErrNoSession == "7: No active session found"
ErrLogoutFirst == "1: Active session found. Please logout first"
Crash == "exception from TelegramClient"

MsgLoggedOut == "Logged out successfully."
MsgAlready == "Active session already exists."
MsgStarting == "Starting login procedure"
MsgLoggedIn == "Logged in successfully and session saved."
MsgActive == "Active session found"

\* a running command: the persisted environment, the server's sessions,
\* the exit taken ("" while running) and the messages printed
Running(st) == st.exit = ""

\* error(msg, code): print and exit(code)
error(st, code) == IF Running(st) THEN [st EXCEPT !.exit = code] ELSE st

print(st, msg) == IF Running(st) THEN [st EXCEPT !.log = Append(@, msg)] ELSE st

\* setx(key, value): the utility writes the user environment, not os.environ
setx(st, io, key, value) ==
    IF ~Running(st) THEN st
    ELSE IF io.setx THEN [st EXCEPT !.reg[key] = value]
    ELSE error(st, ErrSetx)

\* int(environ.get(API_ID) or 0) and str(value) in setx
IntOf(str) ==
    CASE str = "" -> 0
      [] str = "12345678" -> 12345678
      [] str = "1234" -> 1234
StrOf(n) ==
    CASE n = 12345678 -> "12345678"
      [] n = 1234 -> "1234"
      [] n = 0 -> "0"

\* Telegram.validate(value, mode="number")
validate_number(value) ==
    LET v == IF \E b \in BareNumbers : value = "+91" \o b
             THEN value ELSE "+91" \o value
    IN [ok |-> Len(v) = 13 /\ \E b \in DigitNumbers : v = "+91" \o b,
        value |-> v]

\* Telegram.validate(value, mode="api_id")
validate_api_id(value) ==
    [ok |-> value \in {"12345678", "1234"} /\ Len(value) = 8,
     value |-> IntOf(value)]

\* Telegram.validate(value, mode="api_hash"): bytes.fromhex gives 16 bytes
validate_api_hash(value) ==
    [ok |-> value = GoodHash /\ Len(value) = 2 * 16, value |-> value]

\* Telegram.__fetch_session__: [st, self]
fetch_session(st, io, environ) ==
    LET api_id0 == IntOf(environ.api_id)
        idv == validate_api_id(io.api_id_in)
        st1 == IF api_id0 # 0 THEN st
               ELSE IF idv.ok THEN setx(st, io, "api_id", StrOf(idv.value))
               ELSE error(st, ErrApiId)
        hv == validate_api_hash(io.api_hash_in)
        st2 == IF environ.api_hash # "" THEN st1
               ELSE IF hv.ok THEN setx(st1, io, "api_hash", hv.value)
               ELSE error(st1, ErrApiHash)
    IN [st |-> st2,
        self |-> [phone_number |-> environ.number,
                  api_id |-> IF api_id0 # 0 THEN api_id0 ELSE idv.value,
                  api_hash |-> IF environ.api_hash # "" THEN environ.api_hash ELSE hv.value,
                  session |-> environ.session]]

\* the asyncio event loop around a call: "none" before any asyncio.run,
\* "running" inside asyncio.run, "closed" after asyncio.run has returned.
\* TelegramClient(...) takes the current event loop: once asyncio.run has
\* closed it the constructor raises RuntimeError. When the library signs in
\* synchronously whatever the loop (io.sync) the loop plays no part.
ClientRaises(io, loop) == loop = "closed" /\ ~io.sync

\* Telegram.verify: [st, res]. Inside a running loop client.start() hands
\* back its coroutine, which is truthy: the server is not contacted. Else
\* client.start() asks the server; on a session it no longer authorises it
\* asks for a phone and a code: the user signs in again (io.reauth) or the
\* call raises.
verify(st, self, io, loop) ==
    IF ~Running(st) THEN [st |-> st, res |-> FALSE]
    ELSE IF self.session # ""
    THEN IF ClientRaises(io, loop) THEN [st |-> error(st, Crash), res |-> FALSE]
         ELSE IF loop = "running" /\ ~io.sync THEN [st |-> st, res |-> TRUE]
         ELSE IF self.session \in st.valid THEN [st |-> st, res |-> TRUE]
         ELSE IF io.reauth
         THEN [st |-> [st EXCEPT !.valid = @ \cup {self.session}], res |-> TRUE]
         ELSE [st |-> error(st, Crash), res |-> FALSE]
    ELSE [st |-> st, res |-> FALSE]

\* Telegram.logout, line 74 and lines 79-80: verify() inside the running
\* loop of asyncio.run, and the exit when it is false
Telegram_logout_verify(st, self, io) ==
    LET v == verify(st, self, io, "running")
    IN IF v.res THEN v.st ELSE error(v.st, ErrNoSession)

\* Telegram.logout, line 76: client.log_out() leaves the session
\* unauthorised on the server, whether or not it was authorised
log_out(sessions, session) == sessions \ {session}

\* Telegram.logout(reset), lines 77-78 and 82-84: what follows the awaits
Telegram_logout_rest(st, io, reset) ==
    LET st1 == print(setx(st, io, "session", ""), MsgLoggedOut)
    IN IF reset
       THEN setx(setx(st1, io, "api_id", ""), io, "api_hash", "")
       ELSE st1

\* Telegram.login(phone_number)
Telegram_login(st, self, io, phone_number, loop) ==
    LET v == verify(st, self, io, loop)
    IN IF v.res
       THEN IF phone_number # self.phone_number
            THEN error(v.st, ErrLogoutFirst)
            ELSE print(v.st, MsgAlready)
       ELSE LET pv == validate_number(phone_number)
                s1 == IF pv.ok THEN print(v.st, MsgStarting)
                      ELSE error(v.st, ErrNumber)
                s2 == setx(s1, io, "number", pv.value)
                s3 == IF ~Running(s2) THEN s2
                      ELSE IF ClientRaises(io, loop) THEN error(s2, Crash)
                      ELSE IF io.code
                      THEN [s2 EXCEPT !.valid = @ \cup {io.token}]
                      ELSE error(s2, Crash)
                s4 == setx(s3, io, "session", io.token)
            IN print(s4, MsgLoggedIn)

\* the login command, lines 154-157: the number to log in with
login_phone(st, phone_in, phone_number) ==
    LET phone0 == IF phone_number # "" THEN phone_number ELSE env.number
        pv == validate_number(phone_in)
    IN [st |-> IF phone0 # "" \/ pv.ok THEN st ELSE error(st, ErrNumber),
        phone |-> IF phone0 # "" THEN phone0 ELSE pv.value]

\* the login command, line 160: Telegram().login(phone_number)
login(st, io, phone, environ, loop) ==
    LET f == fetch_session(st, io, environ)
    IN Telegram_login(f.st, f.self, io, phone, loop)

\* the verify command
verify_cmd(st, io) ==
    LET f == fetch_session(st, io, env)
        v == verify(f.st, f.self, io, "none")
    IN IF v.res THEN print(v.st, MsgActive) ELSE error(v.st, ErrNoSession)

----------------------------------------------------------------------------
(* telegram.py: the commands, each a process of its own. verify and a      *)
(* login without --force run without a pause. logout, and the logout() of  *)
(* login --force, is a coroutine under asyncio.run: it returns to the      *)
(* event loop at `await client.connect()` and at `await client.log_out()`, *)
(* and persists nothing before both are over.                              *)

\* what a Telegram() object meets in a process whose os.environ is
\* environ: whether setx works, what the user types at the prompts that are
\* shown ("" for a prompt that is not), how an interactive sign-in ends, the
\* session string a new sign-in yields, and whether the client library
\* signs in synchronously inside a running loop
IOs(environ, signIn) ==
    [setx : BOOLEAN,
     api_id_in : IF environ.api_id = "" THEN ApiIdInputs ELSE {""},
     api_hash_in : IF environ.api_hash = "" THEN ApiHashInputs ELSE {""},
     reauth : IF environ.session # "" THEN BOOLEAN ELSE {FALSE},
     code : IF signIn THEN BOOLEAN ELSE {FALSE},
     token : {CHOOSE t \in Tokens :
                  t \notin {reg.session, env.session, proc.session}},
     sync : BOOLEAN]

\* what the user may type at the prompt for the number (lines 154-157)
PhoneTyped(phone_number) ==
    IF phone_number = "" /\ env.number = "" THEN PhoneInputs ELSE {""}

Start == [reg |-> reg, valid |-> valid, exit |-> "", log |-> <<>>]

\* the process has ended: sessions held by neither environment are gone
Finish(st, cmd, arg, force, reset, pre) ==
    /\ reg' = st.reg
    /\ valid' = st.valid \cap {st.reg.session, env.session}
    /\ tlast' = [cmd |-> cmd, phone |-> arg, force |-> force, reset |-> reset,
                 exit |-> st.exit, log |-> st.log, pre |-> <<pre>>]
    /\ proc' = NoProc
    /\ UNCHANGED <<env, wtVars, raceVars>>

\* asyncio.run(Telegram().logout()) up to its first await (line 75): the
\* process ends when verify() is false, else the coroutine is suspended
BeginLogout(st, io, cmd, arg, phone, reset) ==
    LET f == fetch_session(st, io, env)
        st1 == Telegram_logout_verify(f.st, f.self, io)
    IN IF Running(st1)
       THEN /\ reg' = st1.reg
            /\ valid' = st1.valid
            /\ proc' = [pc |-> "connect", cmd |-> cmd, arg |-> arg,
                        phone |-> phone, reset |-> reset, sync |-> io.sync,
                        environ |-> env, session |-> f.self.session,
                        log |-> st1.log, pre |-> <<reg>>]
            /\ UNCHANGED <<env, tlast, wtVars, raceVars>>
       ELSE Finish(st1, cmd, arg, cmd = "login", reset, reg)

\* the login command: without --force it runs to its end; with --force it
\* goes as far as the first await of logout()
TgLogin ==
    \E phone \in PhoneArgs, force \in BOOLEAN :
        \E phone_in \in PhoneTyped(phone) :
            \E io \in IOs(env, ~force) :
                LET p == login_phone(Start, phone_in, phone)
                IN /\ proc.pc = "idle"
                   /\ IF ~Running(p.st)
                      THEN Finish(p.st, "login", phone, force, FALSE, reg)
                      ELSE IF force
                      THEN BeginLogout(p.st, io, "login", phone, p.phone, FALSE)
                      ELSE Finish(login(p.st, io, p.phone, env, "none"),
                                  "login", phone, FALSE, FALSE, reg)

\* the logout command: asyncio.run(Telegram().logout()), reset not passed
\* on, as far as the first await
TgLogout ==
    \E reset \in BOOLEAN, io \in IOs(env, FALSE) :
        /\ proc.pc = "idle"
        /\ BeginLogout(Start, io, "logout", "", "", reset)

\* line 75, `await self.client.connect()`, is over
TgConnect ==
    /\ proc.pc = "connect"
    /\ proc' = [proc EXCEPT !.pc = "log_out"]
    /\ UNCHANGED <<reg, env, valid, tlast, wtVars, raceVars>>

\* line 76, `await self.client.log_out()`, is over: the server has dropped
\* the session, nothing is persisted yet
TgLogOut ==
    /\ proc.pc = "log_out"
    /\ valid' = log_out(valid, proc.session)
    /\ proc' = [proc EXCEPT !.pc = "resume"]
    /\ UNCHANGED <<reg, env, tlast, wtVars, raceVars>>

\* the coroutine runs to its end (lines 77-84) and asyncio.run returns; the
\* login command goes on with Telegram().login(phone_number), a second
\* object, the event loop now closed
TgResume ==
    \E ok \in BOOLEAN :
        \E io \in {j \in IOs(proc.environ, proc.cmd = "login") :
                       j.sync = proc.sync} :
            LET st == [reg |-> reg, valid |-> valid, exit |-> "",
                       log |-> proc.log]
                st1 == Telegram_logout_rest(st, [io EXCEPT !.setx = ok], FALSE)
            IN /\ proc.pc = "resume"
               /\ IF proc.cmd = "logout"
                  THEN Finish(st1, "logout", "", FALSE, proc.reset, proc.pre[1])
                  ELSE Finish(login(st1, io, proc.phone, proc.environ, "closed"),
                              "login", proc.arg, TRUE, FALSE, proc.pre[1])

\* the verify command
TgVerify ==
    \E io \in IOs(env, FALSE) :
        /\ proc.pc = "idle"
        /\ Finish(verify_cmd(Start, io), "verify", "", FALSE, FALSE, reg)

\* a new terminal window inherits the persisted user environment
NewShell ==
    /\ env # reg
    /\ env' = reg
    /\ valid' = valid \cap {reg.session, proc.session}
    /\ UNCHANGED <<reg, tlast, proc, wtVars, raceVars>>

TgInit ==
    /\ file = [fmt |-> "terminal",
               data |-> [theme |-> "dark",
                         profiles |-> [defaults |-> "d", list |-> <<>>]]]
    /\ last = NoCall
    /\ RaceQuiet
    /\ \E configured \in BOOLEAN :
          reg = IF configured
                THEN [EmptyEnv EXCEPT !.api_id = "12345678", !.api_hash = GoodHash]
                ELSE EmptyEnv
    /\ env = reg
    /\ valid = {}
    /\ tlast = TgNoCmd
    /\ proc = NoProc

TgNext ==
    \/ TgLogin \/ TgLogout \/ TgConnect \/ TgLogOut \/ TgResume
    \/ TgVerify \/ NewShell

TgSpec == TgInit /\ [][TgNext]_vars

----------------------------------------------------------------------------
(* Properties of the telegram commands                                     *)

TgPre == tlast.pre[1]

InLog(msg) == \E i \in 1..Len(tlast.log) : tlast.log[i] = msg

\* C8: logout -r/--reset resets the API ID and hash: after the command has
\* logged out an active session, TELEGRAM_API_ID and TELEGRAM_API_HASH are
\* empty and TELEGRAM_SESSION is cleared; without --reset they are unchanged.
C8_LogoutResetClearsApi ==
    (tlast.cmd = "logout" /\ tlast.exit = "" /\ InLog(MsgLoggedOut))
    => /\ reg.session = ""
       /\ IF tlast.reset
          THEN reg.api_id = "" /\ reg.api_hash = ""
          ELSE reg.api_id = TgPre.api_id /\ reg.api_hash = TgPre.api_hash

\* C9: login -f/--force clears any existing session and then runs the login
\* procedure for the given number, whether or not a session was active; it
\* never ends in "No active session found" or "Active session found ...
\* Please logout first".
C9_ForceLoginReachesLogin ==
    (tlast.cmd = "login" /\ tlast.force)
    => /\ tlast.exit \notin {ErrNoSession, ErrLogoutFirst}
       /\ tlast.exit = "" => InLog(MsgStarting)

----------------------------------------------------------------------------
(* wt_profile.py step by step: every self.profiles / self.data is a read   *)
(* of the file of its own, and the terminal may rewrite the file between   *)
(* any two of them                                                         *)

\* external writes followed during one call
MaxExt == 1

\* the entries of this part: profiles added by the tool are named "B", the
\* terminal's own are named "A" and have no commandline
RaceGuids == {"{1}", "{2}", "{3}"}
RaceAdds == [name : {"B"}, guid : RaceGuids, commandline : Cmds, hidden : {FALSE}]
RaceOwn == [name : {"A"}, guid : RaceGuids, hidden : {FALSE}]

\* remove --guid / --name (wt_profile.py:174-185)
RaceValues(field) ==
    CASE field = "guid" -> RaceGuids
      [] field = "name" -> Names

Profile == race.profile[1]

InCall == race.pc \notin {"idle", "return", "raise"}

\* add_profile is entered (wt_profile.py:56)
CallAdd ==
    \E p \in RaceAdds :
        /\ race.pc = "idle"
        /\ \A i \in 1..Len(profiles(file)) : profiles(file)[i].guid # p.guid
        /\ race' = [NoRace EXCEPT !.pc = "add_query", !.op = "add",
                                  !.profile = Some(p)]
        /\ UNCHANGED <<file, seen, last, tgVars>>

\* remove_profile is entered (wt_profile.py:64)
CallRemove ==
    \E field \in {"guid", "name"} : \E value \in RaceValues(field) :
        /\ race.pc = "idle"
        /\ race' = [NoRace EXCEPT !.pc = "rm_find", !.op = "remove",
                                  !.value = value, !.field = field]
        /\ UNCHANGED <<file, seen, last, tgVars>>

\* add_profile, line 57-58: the query, and the call of remove_profile
AddQuery ==
    /\ race.pc = "add_query"
    /\ LET found == query(file, Profile.commandline, "commandline")
       IN race' = IF Truthy(found)
                  THEN [race EXCEPT !.pc = "rm_find", !.nested = TRUE,
                                    !.value = found[1].guid, !.field = "guid"]
                  ELSE [race EXCEPT !.pc = "add_data"]
    /\ UNCHANGED <<file, seen, last, tgVars>>

\* remove_profile, lines 67-73: the index from a first read of the list
RmFind ==
    /\ race.pc = "rm_find"
    /\ LET index == FindIndex(profiles(file), race.value, race.field)
       IN race' = IF NotIndex(index)
                  THEN [race EXCEPT !.pc = IF race.nested THEN "add_data" ELSE "return",
                                    !.ret = None]
                  ELSE [race EXCEPT !.pc = "rm_pop", !.index = index]
    /\ UNCHANGED <<file, seen, last, tgVars>>

\* remove_profile that looks the value up again in the document it pops from
RmPop_refind ==
    /\ race.pc = "rm_pop"
    /\ LET data == loads(file)
           list == data.profiles.list
           index == FindIndex(list, race.value, race.field)
       IN race' = IF index = None
                  THEN [race EXCEPT !.pc = "raise"]
                  ELSE [race EXCEPT
                           !.pc = "rm_write",
                           !.ret = Some(list[index[1] + 1]),
                           !.data = Some([data EXCEPT !.profiles.list =
                                                         RemoveAt(list, index[1])])]
    /\ UNCHANGED <<file, seen, last, tgVars>>

\* remove_profile, lines 74-75: a second read, and pop(index) on it;
\* IndexError when that list is too short
RmPop ==
    /\ race.pc = "rm_pop"
    /\ LET data == loads(file)
           list == data.profiles.list
           index == race.index[1]
       IN race' = IF index >= Len(list)
                  THEN [race EXCEPT !.pc = "raise"]
                  ELSE [race EXCEPT
                           !.pc = "rm_write",
                           !.ret = Some(list[index + 1]),
                           !.data = Some([data EXCEPT !.profiles.list =
                                                         RemoveAt(list, index)])]
    /\ UNCHANGED <<file, seen, last, tgVars>>

\* the change of the external writer is not in the file f
Lost(f, change) ==
    CASE change.kind = "theme" -> loads(f).theme # change.theme
      [] change.kind = "insert" ->
            \A i \in 1..Len(profiles(f)) : profiles(f)[i].guid # change.guid
      [] change.kind = "delete" ->
            \E i \in 1..Len(profiles(f)) : profiles(f)[i].guid = change.guid

\* what a write that ends the call in file f adds to `seen`
Effects(f) ==
    (IF race.change # None /\ Lost(f, race.change[1])
     THEN {<<race.op, "lost">>} ELSE {})
    \cup (IF race.op = "remove" /\ race.ret # None
             /\ Get(race.ret[1], race.field) # Some(race.value)
          THEN {<<"remove", "wrong">>} ELSE {})

\* remove_profile, lines 76-77: the write, and the return
RmWrite ==
    /\ race.pc = "rm_write"
    /\ file' = dumps(race.data[1])
    /\ race' = [race EXCEPT !.pc = IF race.nested THEN "add_data" ELSE "return"]
    /\ seen' = IF race.nested THEN seen ELSE seen \cup Effects(file')
    /\ UNCHANGED <<last, tgVars>>

\* add_profile, line 59: self.data.copy(), a read
AddData ==
    /\ race.pc = "add_data"
    /\ race' = [race EXCEPT !.pc = "add_profiles", !.data = Some(loads(file))]
    /\ UNCHANGED <<file, seen, last, tgVars>>

\* add_profile, line 60: self.profiles + [profile], another read
AddProfiles ==
    /\ race.pc = "add_profiles"
    /\ race' = [race EXCEPT
                   !.pc = "add_write",
                   !.data = Some([race.data[1] EXCEPT !.profiles.list =
                                                       Append(profiles(file), Profile)])]
    /\ UNCHANGED <<file, seen, last, tgVars>>

\* add_profile, lines 61-62: the write, and return True
AddWrite ==
    /\ race.pc = "add_write"
    /\ file' = dumps(race.data[1])
    /\ race' = [race EXCEPT !.pc = "return", !.ret = Some(TRUE)]
    /\ seen' = seen \cup Effects(file')
    /\ UNCHANGED <<last, tgVars>>

\* the call is over, by return or by IndexError
Return ==
    /\ race.pc \in {"return", "raise"}
    /\ race' = NoRace
    /\ UNCHANGED <<file, seen, last, tgVars>>

\* the terminal saves its settings while a call is in progress: another
\* theme, a new profile of its own at the head of the list, or the first
\* profile deleted
ExtWrite ==
    /\ InCall
    /\ race.ext < MaxExt
    /\ LET data == loads(file)
           list == data.profiles.list
           used == {list[i].guid : i \in 1..Len(list)}
                   \cup (IF race.profile = None THEN {} ELSE {Profile.guid})
       IN \/ \E t \in Themes \ {data.theme} :
                /\ file' = [fmt |-> "terminal", data |-> [data EXCEPT !.theme = t]]
                /\ race' = [race EXCEPT
                               !.ext = @ + 1,
                               !.change = Some([kind |-> "theme", theme |-> t, guid |-> ""])]
          \/ \E g \in RaceGuids \ used :
                /\ file' = [fmt |-> "terminal",
                            data |-> [data EXCEPT !.profiles.list =
                                         <<[name |-> "A", guid |-> g, hidden |-> FALSE]>>
                                         \o list]]
                /\ race' = [race EXCEPT
                               !.ext = @ + 1,
                               !.change = Some([kind |-> "insert", theme |-> "", guid |-> g])]
          \/ /\ Len(list) > 0
             /\ file' = [fmt |-> "terminal",
                         data |-> [data EXCEPT !.profiles.list = Tail(list)]]
             /\ race' = [race EXCEPT
                            !.ext = @ + 1,
                            !.change = Some([kind |-> "delete", theme |-> "",
                                             guid |-> list[1].guid])]
    /\ UNCHANGED <<seen, last, tgVars>>

RaceInit ==
    /\ TgQuiet
    /\ last = NoCall
    /\ RaceQuiet
    /\ \E list \in {l \in ListsUpTo(RaceAdds \cup RaceOwn, 2) :
                        UniqueGuids(l) /\ UniqueCmds(l)} :
          file = [fmt |-> "terminal",
                  data |-> [theme |-> "dark",
                            profiles |-> [defaults |-> "d", list |-> list]]]

RaceNext ==
    \/ CallAdd \/ CallRemove \/ AddQuery \/ RmFind \/ RmPop \/ RmWrite
    \/ AddData \/ AddProfiles \/ AddWrite \/ Return \/ ExtWrite

RaceSpec == RaceInit /\ [][RaceNext]_vars

----------------------------------------------------------------------------
(* Properties of the store beside an external writer                       *)

\* C10: no lock, no freshness check: an external write is possible at every
\* point of a call; remove_profile pops, from its second read, the index
\* its first read found, and both calls end by writing the document built
\* from their earlier reads whatever the file holds by then. So the
\* external writer's change can be lost (add_profile, remove_profile) and
\* remove_profile can remove and return a profile whose field is not the
\* requested value.
C10_StaleReadModifyWrite ==
    [][/\ (InCall /\ race.ext < MaxExt) => ENABLED ExtWrite
       /\ (race.pc = "rm_pop" /\ race'.pc = "rm_write")
             => /\ race'.ret = Some(profiles(file)[race.index[1] + 1])
                /\ Len(race'.data[1].profiles.list) = Len(profiles(file)) - 1
       /\ (race.pc = "rm_pop" /\ race'.pc = "raise")
             => race.index[1] >= Len(profiles(file))
       /\ (race.pc \in {"rm_write", "add_write"} /\ race'.pc # race.pc)
             => file' = [fmt |-> "indent4", data |-> race.data[1]]
      ]_vars

C10_Witness ==
    seen = {<<"add", "lost">>, <<"remove", "lost">>, <<"remove", "wrong">>}

====
